---- MODULE Spec2Model ----
(***************************************************************************)
(* Model of the deployment pipeline of lambda-ansible-deployment.          *)
(*                                                                         *)
(* Two handlers exist in the repository:                                   *)
(*   "ansible"    -- src/lambda/ansible_lambda.py    (Secrets Manager)     *)
(*   "deployment" -- src/lambda/deployment_lambda.py (SSM Parameter Store) *)
(* A process hosts one of them (variable `variant`).  Invocations of the   *)
(* handler are the runs; they share the process' filesystem, its current   *)
(* working directory, its environment and the secret store.                *)
(*                                                                         *)
(* Strings that the code builds by formatting are sequences of tokens      *)
(* (each token a string); paths are sequences of path components.          *)
(***************************************************************************)
EXTENDS Naturals, Integers, Sequences, FiniteSets, TLC

---------------------------------------------------------------------------
(* Bounds of the model *)

\* number of handler invocations that may be in progress in the model
NumProcs == 2
\* number of distinct names tempfile.mkdtemp can draw
NumWorkNames == 2
\* at most this many of the environment variables the handlers read are unset
MaxUnset == 1
\* number of characters of tool output that one token of it stands for
CharsPerToken == 1000

---------------------------------------------------------------------------
(* Program constants *)

\* result.stdout[-20000:] in _run_playbook
RawTail == 20000
\* result["stderr"][-4000:] in ansible_lambda.lambda_handler
FailTailA == 4000
\* result['stdout'][-2000:] in both handlers
ReportTail == 2000

---------------------------------------------------------------------------
(* Python values *)

\* Python's None
None == "<None>"
\* a key that is absent from a dict
Missing == "<missing>"

\* bool(v) for the values the handlers test with `not v` / all([...])
Truthy(v) == v \notin {None, ""}

\* dict.get(k) and dict.get(k, d)
Get(body, k) == IF body[k] = Missing THEN None ELSE body[k]
GetDefault(body, k, d) == IF body[k] = Missing THEN d ELSE body[k]

\* f"{v}" : None is rendered as the text None
Str(v) == IF v = None THEN "None" ELSE v

\* str.lower() / str.upper() on the site identifiers of the model
Lower(s) == CASE s \in {"Sit1", "sit1", "SIT1"} -> "sit1"
              [] OTHER -> s
Upper(s) == CASE s \in {"Sit1", "sit1", "SIT1"} -> "SIT1"
              [] OTHER -> s

\* s[-n:]
LastN(s, n) == IF Len(s) <= n THEN s ELSE SubSeq(s, Len(s) - n + 1, Len(s))
\* s[-n:] of tool output, n counted in characters
TailChars(s, n) == LastN(s, n \div CharsPerToken)

Procs == 1 .. NumProcs

---------------------------------------------------------------------------
(* Paths *)

NoPath == << >>
NameTable == << "tmp_a", "tmp_b", "tmp_c", "tmp_d" >>
\* the directories tempfile.mkdtemp may create (prefix + random suffix)
WorkDirs == { << NameTable[i] >> : i \in 1 .. NumWorkNames }
\* os.path.join(a, b)
Join(a, b) == Append(a, b)
\* os.path.expanduser('~/.ssh')
SshDir == << "~", ".ssh" >>
HomeKey == Join(SshDir, "id_rsa")
\* the process' working directory when the runtime starts it
InitialCwd == << "var", "task" >>
\* what the working directory is once its directory has been removed
DeletedCwd == << "(deleted)" >>
KeyPaths == { Join(w, "id_rsa") : w \in WorkDirs } \cup { HomeKey }
IsUnder(p, d) == Len(p) >= Len(d) /\ SubSeq(p, 1, Len(d)) = d

---------------------------------------------------------------------------
(* The secret store and the environment *)

Fields == { "VM_HOSTNAME", "VM_USERNAME", "DATASOURCE_URL", "DB_USERNAME", "DB_PASSWORD" }
\* the value the store holds for a field of the site record
SecretValue(f) == CASE f = "VM_HOSTNAME"    -> "vm1.example"
                    [] f = "VM_USERNAME"    -> "deploy"
                    [] f = "DATASOURCE_URL" -> "jdbc:db"
                    [] f = "DB_USERNAME"    -> "dbuser"
                    [] f = "DB_PASSWORD"    -> "dbpass-secret"
SshKeyMaterial == "ssh-private-key"

EnvNames == { "AWS_S3_BUCKET_REPOSITORY", "AWS_ACCESS_KEY_ID", "AWS_SECRET_ACCESS_KEY",
              "AWS_DEFAULT_REGION", "ANSIBLE_S3_BUCKET" }
EnvValue(n) == CASE n = "AWS_S3_BUCKET_REPOSITORY" -> "repo-bucket"
                 [] n = "AWS_ACCESS_KEY_ID"        -> "AKIA-id"
                 [] n = "AWS_SECRET_ACCESS_KEY"    -> "aws-secret"
                 [] n = "AWS_DEFAULT_REGION"       -> "eu-west-1"
                 [] n = "ANSIBLE_S3_BUCKET"        -> "bundle-bucket"

\* the raw credential values a response must not carry
CredentialValues == { SecretValue("DB_PASSWORD"), EnvValue("AWS_SECRET_ACCESS_KEY"), SshKeyMaterial }

VARIABLES
    variant,   \* which handler the process hosts
    dirs,      \* the workspace directories that exist
    files,     \* key file path -> permission mode, "absent" when the file does not exist
    cwd,       \* the process' current working directory
    run        \* per invocation: position and locals of lambda_handler

vars == << variant, dirs, files, cwd, run >>

\* os.getenv(n) / os.environ.get(n), os.getenv(n, d) in environment env
GetEnv(env, n) == env[n]
GetEnvDefault(env, n, d) == IF env[n] = None THEN d ELSE env[n]

---------------------------------------------------------------------------
(* Responses and exceptions *)

NoExc == [type |-> "none", msg |-> << >>]
Exc(t, m) == [type |-> t, msg |-> m]

EmptyBody == [error |-> << >>, message |-> None, service_name |-> None, timestamp |-> None,
              site |-> None, target_vm |-> None, stdout |-> << >>, stderr |-> << >>]
NoResponse == [outcome |-> "none", statusCode |-> 0, body |-> EmptyBody, exc |-> NoExc]
Returned(code, body) == [outcome |-> "returned", statusCode |-> code, body |-> body, exc |-> NoExc]
\* the handler did not return: an exception left it
Raised(e) == [outcome |-> "raised", statusCode |-> 0, body |-> EmptyBody, exc |-> e]

NoResult == [returncode |-> 0, stdout |-> << >>, stderr |-> << >>, success |-> FALSE, set |-> FALSE]
NoCreds == [hostname |-> None, username |-> None, ssh_key |-> None, datasource_url |-> None,
            db_username |-> None, db_password |-> None]
\* what the store answered for the site record, before it is asked
NoAnswer == [asked |-> FALSE, exists |-> FALSE, present |-> {}]
\* the source of the staged bundle, before a bundle is staged
NoBundle == [kind |-> "none", path |-> << >>, slash |-> FALSE]
\* what the external tool did, before it has ended
NoTool == [returncode |-> 0, stdout |-> << >>, stderr |-> << >>]

\* locals of lambda_handler (None before they are assigned), and a record of
\* what happened to the run: store_calls counts the calls to the secret store,
\* rm_failed says the removal of the workspace failed, tool_event what became
\* of the external tool, tool its return code and all it printed, entry_cwd the
\* working directory at the handler's entry, bundle where the staged automation
\* files came from and staged the files the stager put into the workspace
IdleRun == [pc |-> "idle", service_name |-> None, jar_timestamp |-> None, site |-> None,
            app_user |-> None, ansible_s3_bucket |-> None, artifacts_s3_bucket |-> None,
            vm_data |-> NoAnswer, creds |-> NoCreds,
            deployer |-> FALSE, work_dir |-> NoPath, ansible_dir |-> NoPath,
            key_path |-> NoPath, chmod_failed |-> FALSE, original_cwd |-> NoPath,
            extra_vars |-> << >>, cmd |-> << >>, launched |-> FALSE, result |-> NoResult,
            exc |-> NoExc, response |-> NoResponse, store_calls |-> 0, rm_failed |-> FALSE,
            tool_event |-> "none", tool |-> NoTool, entry_cwd |-> NoPath,
            bundle |-> NoBundle, staged |-> {}]

---------------------------------------------------------------------------
(* Initial state: a fresh process *)

\* what the secret store may hold for the requested site: a full record, a
\* record that lacks one field, or no record
StoreChoices == { [asked |-> TRUE, exists |-> TRUE, present |-> Fields] }
                \cup { [asked |-> TRUE, exists |-> TRUE, present |-> Fields \ {f}] : f \in Fields }
                \cup { [asked |-> TRUE, exists |-> FALSE, present |-> {}] }

EnvChoices == { [n \in EnvNames |-> IF n \in u THEN None ELSE EnvValue(n)] :
                u \in { x \in SUBSET EnvNames : Cardinality(x) <= MaxUnset } }

Init ==
    /\ variant \in { "ansible", "deployment" }
    /\ dirs = {}
    /\ files = [p \in KeyPaths |-> "absent"]
    /\ cwd = InitialCwd
    /\ run = [r \in Procs |-> IdleRun]

---------------------------------------------------------------------------
(* Request payloads *)

Events == [service_name : { Missing, "", "svc1" },
           jar_timestamp : { Missing, "", "t1" },
           site : { Missing, None, "Sit1" },
           app_user : { Missing, "bob" },
           ansible_s3_bucket : { Missing, "bundles" },
           artifacts_s3_bucket : { Missing, "repo" }]

\* the handler's validation of the request
ValidA(rr) == Truthy(rr.service_name) /\ Truthy(rr.jar_timestamp)
ValidD(rr) == /\ Truthy(rr.service_name) /\ Truthy(rr.jar_timestamp)
              /\ Truthy(rr.artifacts_s3_bucket) /\ Truthy(rr.ansible_s3_bucket)

---------------------------------------------------------------------------
(* Exceptions converted to responses *)

\* the body json.dumps builds from str(e) in the handler's except clause
ErrorBody(e) ==
    IF variant = "ansible"
    THEN [EmptyBody EXCEPT !.error = e.msg]
    ELSE [EmptyBody EXCEPT !.error = e.msg, !.message = "Lambda deployment failed"]

\* a handler whose exception paths answer at once, without the finally clause
RaiseSkipsCleanup(rr, e) ==
    [rr EXCEPT !.pc = "done", !.exc = e, !.response = Returned(500, ErrorBody(e))]

\* an exception raised inside lambda_handler at the position of rr
\*   ansible:    inside the inner try (workspace exists) the finally runs first, then
\*               the outer except; before it the outer except answers at once
\*   deployment: the except clause builds the response, then the finally runs
\*               cleanup() when deployer is set
Raise(rr, e) ==
    IF variant = "ansible"
    THEN IF rr.work_dir = NoPath
         THEN [rr EXCEPT !.pc = "done", !.exc = e, !.response = Returned(500, ErrorBody(e))]
         ELSE [rr EXCEPT !.pc = "finally", !.exc = e]
    ELSE IF rr.deployer
         THEN [rr EXCEPT !.pc = "finally", !.exc = e, !.response = Returned(500, ErrorBody(e))]
         ELSE [rr EXCEPT !.pc = "done", !.exc = e, !.response = Returned(500, ErrorBody(e))]

\* the order of the pipeline's steps in each handler
NextPc(pc) ==
    IF variant = "ansible"
    THEN CASE pc = "resolve"   -> "mkdtemp"
           [] pc = "mkdtemp"   -> "stage"
           [] pc = "stage"     -> "write_key"
           [] pc = "write_key" -> "chmod_key"
           [] pc = "chmod_key" -> "inventory"
           [] pc = "inventory" -> "launch"
           [] pc = "launch"    -> "running"
           [] pc = "running"   -> "finally"
    ELSE CASE pc = "mkdtemp"   -> "resolve"
           [] pc = "resolve"   -> "write_key"
           [] pc = "write_key" -> "chmod_key"
           [] pc = "chmod_key" -> "stage"
           [] pc = "stage"     -> "inventory"
           [] pc = "inventory" -> "launch"
           [] pc = "launch"    -> "running"
           [] pc = "running"   -> "finally"

---------------------------------------------------------------------------
(* lambda_handler: parsing and validation *)

BadRequestBody ==
    IF variant = "ansible"
    THEN [EmptyBody EXCEPT !.error = << "service_name and jar_timestamp required" >>]
    ELSE [EmptyBody EXCEPT !.error = << "Missing required parameters: service_name, jar_timestamp, artifacts_s3_bucket, ansible_s3_bucket" >>]

AttributeErrorLower == Exc("AttributeError", << "'NoneType' object has no attribute 'lower'" >>)
AttributeErrorUpper == Exc("AttributeError", << "'NoneType' object has no attribute 'upper'" >>)

\* the handler from its entry to the end of validation, on request ev in
\* environment env.  The locals are assigned in the order of the source:
\* service_name, jar_timestamp, then site (normalised at once), then the rest.
Parsed(ev, env) ==
    LET rr0 == [IdleRun EXCEPT !.service_name = Get(ev, "service_name"),
                               !.jar_timestamp = Get(ev, "jar_timestamp")]
        raw == GetDefault(ev, "site", "sit1")
    IN  IF raw = None
        THEN Raise(rr0, IF variant = "ansible" THEN AttributeErrorLower ELSE AttributeErrorUpper)
        ELSE IF variant = "ansible"
        THEN LET rr1 == [rr0 EXCEPT !.site = Lower(raw),
                                    !.app_user = GetDefault(ev, "app_user", "appadm")]
             IN  IF ~ValidA(rr1)
                 THEN [rr1 EXCEPT !.pc = "done", !.response = Returned(400, BadRequestBody)]
                 ELSE [rr1 EXCEPT !.pc = "resolve"]
        ELSE LET rr1 == [rr0 EXCEPT !.site = Upper(raw),
                                    !.app_user = GetDefault(ev, "app_user", "appuser"),
                                    !.ansible_s3_bucket =
                                        GetDefault(ev, "ansible_s3_bucket", GetEnv(env, "ANSIBLE_S3_BUCKET")),
                                    !.artifacts_s3_bucket =
                                        GetDefault(ev, "artifacts_s3_bucket", GetEnv(env, "AWS_S3_BUCKET_REPOSITORY"))]
             IN  IF ~ValidD(rr1)
                 THEN [rr1 EXCEPT !.pc = "done", !.response = Returned(400, BadRequestBody)]
                 ELSE [rr1 EXCEPT !.pc = "mkdtemp", !.deployer = TRUE]

\* an invocation of the handler with a request drawn from events, in an
\* environment drawn from envs
Invoke(r, events, envs) ==
    /\ run[r].pc = "idle"
    /\ \E ev \in events : \E env \in envs : run' = [run EXCEPT ![r] = [Parsed(ev, env) EXCEPT !.entry_cwd = cwd]]
    /\ UNCHANGED << variant, dirs, files, cwd >>

---------------------------------------------------------------------------
(* Secret Resolver *)

\* the field of the site record behind each credential
FieldOf(c) == CASE c = "hostname"       -> "VM_HOSTNAME"
                [] c = "username"       -> "VM_USERNAME"
                [] c = "datasource_url" -> "DATASOURCE_URL"
                [] c = "db_username"    -> "DB_USERNAME"
                [] c = "db_password"    -> "DB_PASSWORD"

HasField(data, f) == data.exists /\ f \in data.present

\* ansible_lambda: _get_json_secret(vm_secret_id) answers data; then the reads
\* of vm_data.  VM_HOSTNAME and VM_USERNAME are subscripted (KeyError when
\* absent); the other three are read with .get(field, "").
ResolvedA(rr, data) ==
    LET called == [rr EXCEPT !.store_calls = @ + 1, !.vm_data = data]
        opt(f) == IF HasField(data, f) THEN SecretValue(f) ELSE ""
    IN  IF ~data.exists
        THEN Raise(called, Exc("ResourceNotFoundException", << "Secrets Manager can't find the specified secret." >>))
        ELSE IF ~HasField(data, "VM_HOSTNAME")
        THEN Raise(called, Exc("KeyError", << "'VM_HOSTNAME'" >>))
        ELSE IF ~HasField(data, "VM_USERNAME")
        THEN Raise(called, Exc("KeyError", << "'VM_USERNAME'" >>))
        ELSE [called EXCEPT !.pc = NextPc(rr.pc),
                            !.creds = [NoCreds EXCEPT !.hostname = SecretValue("VM_HOSTNAME"),
                                                      !.username = SecretValue("VM_USERNAME"),
                                                      !.datasource_url = opt("DATASOURCE_URL"),
                                                      !.db_username = opt("DB_USERNAME"),
                                                      !.db_password = opt("DB_PASSWORD")]]

\* deployment_lambda: the order in which get_inventory_mapping reads its parameters
ParamOrder == << "hostname", "username", "ssh_key", "datasource_url", "db_username", "db_password" >>

\* deployment_lambda: get_inventory_mapping(site) against a store holding data
\* for the site; key_ok says whether the read of /demoapp/vm/ssh-key succeeds.
\* The first failing read ends the function with ValueError, whatever the
\* underlying error was.
ResolvedD(rr, data, key_ok) ==
    LET ok(c) == IF c = "ssh_key" THEN key_ok ELSE HasField(data, FieldOf(c))
        bad == { i \in 1 .. Len(ParamOrder) : ~ok(ParamOrder[i]) }
        first == CHOOSE i \in bad : \A j \in bad : i <= j
    IN  IF bad # {}
        THEN Raise([rr EXCEPT !.store_calls = @ + first, !.vm_data = data],
                   Exc("ValueError", << "No inventory mapping found for site: ", rr.site >>))
        ELSE [rr EXCEPT !.pc = NextPc(rr.pc),
                        !.store_calls = @ + Len(ParamOrder),
                        !.vm_data = data,
                        !.creds = [hostname |-> SecretValue("VM_HOSTNAME"),
                                   username |-> SecretValue("VM_USERNAME"),
                                   ssh_key |-> SshKeyMaterial,
                                   datasource_url |-> SecretValue("DATASOURCE_URL"),
                                   db_username |-> SecretValue("DB_USERNAME"),
                                   db_password |-> SecretValue("DB_PASSWORD")]]

Resolve(r, data) ==
    /\ run[r].pc = "resolve"
    /\ \/ /\ variant = "ansible"
          /\ run' = [run EXCEPT ![r] = ResolvedA(run[r], data)]
       \/ /\ variant = "deployment"
          /\ \E key_ok \in BOOLEAN : run' = [run EXCEPT ![r] = ResolvedD(run[r], data, key_ok)]
    /\ UNCHANGED << variant, dirs, files, cwd >>

---------------------------------------------------------------------------
(* Workspace Manager: creation *)

\* tempfile.mkdtemp: a directory whose name did not exist is created
MkdtempOk(r, w) ==
    /\ w \in WorkDirs \ dirs
    /\ dirs' = dirs \cup { w }
    /\ run' = [run EXCEPT ![r] = [@ EXCEPT !.pc = NextPc(run[r].pc), !.work_dir = w]]

\* tempfile.mkdtemp raises (no usable name, or the OS refuses)
MkdtempFails(r) ==
    /\ dirs' = dirs
    /\ run' = [run EXCEPT ![r] = Raise(@, Exc("OSError", << "No usable temporary directory name found" >>))]

Mkdtemp(r) ==
    /\ run[r].pc = "mkdtemp"
    /\ \/ \E w \in WorkDirs : MkdtempOk(r, w)
       \/ MkdtempFails(r)
    /\ UNCHANGED << variant, files, cwd >>

---------------------------------------------------------------------------
(* Bundle Packager *)

\* the automation directory that is packaged or embedded: its files, relative
\* to the directory
PlaybookTree == { << "main.yml" >>, << "roles", "deploy", "tasks.yml" >>,
                  << ".git", "config" >>, << "filter.pyc" >> }
\* the --ansible-dir arguments of the model: "ansible", "ansible/", "playbooks"
AutomationDirs == { [kind |-> "zip", path |-> << "ansible" >>, slash |-> FALSE],
                    [kind |-> "zip", path |-> << "ansible" >>, slash |-> TRUE],
                    [kind |-> "zip", path |-> << "playbooks" >>, slash |-> FALSE] }

\* d not in ['.git', '__pycache__', '.pytest_cache'], for every directory on the
\* way to the file (os.walk does not descend into the others)
WalkReaches(f) ==
    \A i \in 1 .. Len(f) - 1 : f[i] \notin { ".git", "__pycache__", ".pytest_cache" }
\* file.endswith(('.pyc', '.pyo', '.DS_Store')) for the file names of the model
EndsWithSkipped(name) == name \in { "filter.pyc", "filter.pyo", ".DS_Store" }
\* os.path.dirname(ansible_dir): of "a/b" it is "a", of "a/b/" it is "a/b"
Dirname(d) == IF d.slash THEN d.path ELSE SubSeq(d.path, 1, Len(d.path) - 1)
\* os.path.relpath(p, start) for a path p under start
Relpath(p, start) == SubSeq(p, Len(start) + 1, Len(p))

\* create_ansible_package(ansible_dir, output_file): the names of the entries
\* of the archive
create_ansible_package(d, tree) ==
    { Relpath(d.path \o f, Dirname(d)) :
        f \in { g \in tree : WalkReaches(g) /\ ~EndsWithSkipped(g[Len(g)]) } }

---------------------------------------------------------------------------
(* Bundle Stager *)

\* shutil.unpack_archive(bundle, dest) / ZipFile.extractall(dest): the files
\* that exist under dest afterwards
Extract(entries, dest) == { dest \o e : e \in entries }
\* shutil.copytree(src, target)
Copytree(tree, target) == { target \o f : f \in tree }
\* os.path.isdir(p), among the files fs
IsDir(fs, p) == \E f \in fs : Len(f) > Len(p) /\ IsUnder(f, p)

\* the directory embedded in the deployment package, and no bundle at all
EmbeddedDir == [kind |-> "dir", path |-> << "ansible" >>, slash |-> FALSE]
MissingBundle == [kind |-> "missing", path |-> << >>, slash |-> FALSE]
\* what the deployment package (ansible) or the bucket (deployment) may hold
BundleChoices == { MissingBundle, EmbeddedDir } \cup AutomationDirs

\* _copy_embedded_ansible(work_dir) with b in the deployment package
StageA(rr, b) ==
    LET target == Join(rr.work_dir, "ansible")
        unpacked == Extract(create_ansible_package(b, PlaybookTree), rr.work_dir)
    IN  IF b.kind = "dir"
        THEN [rr EXCEPT !.pc = NextPc(rr.pc), !.ansible_dir = target, !.bundle = b,
                        !.staged = Copytree(PlaybookTree, target)]
        ELSE IF b.kind = "zip"
        THEN IF IsDir(unpacked, target)
             THEN [rr EXCEPT !.pc = NextPc(rr.pc), !.ansible_dir = target, !.bundle = b,
                             !.staged = unpacked]
             ELSE Raise([rr EXCEPT !.bundle = b, !.staged = unpacked],
                        Exc("RuntimeError", << "ansible directory missing after unzip" >>))
        ELSE Raise(rr, Exc("RuntimeError", << "No embedded ansible (directory or zip) found in package" >>))

\* download_ansible_package(bucket, key) with b the object in the bucket
StageD(rr, b) ==
    LET package_path == Join(rr.work_dir, "ansible-package.zip")
        ansible_dir == Join(rr.work_dir, "ansible")
    IN  IF b.kind = "zip"
        THEN [rr EXCEPT !.pc = NextPc(rr.pc), !.ansible_dir = ansible_dir, !.bundle = b,
                        !.staged = { package_path }
                                   \cup Extract(create_ansible_package(b, PlaybookTree), ansible_dir)]
        ELSE Raise(rr, Exc("ClientError", << "An error occurred (404) when calling the HeadObject operation: Not Found" >>))

\* the handler stages the bundle b
Stage(r, b) ==
    /\ run[r].pc = "stage"
    /\ \/ /\ variant = "ansible"
          /\ run' = [run EXCEPT ![r] = StageA(@, b)]
       \/ /\ variant = "deployment"
          /\ b.kind # "dir"
          /\ run' = [run EXCEPT ![r] = StageD(@, b)]
    /\ UNCHANGED << variant, dirs, files, cwd >>

---------------------------------------------------------------------------
(* Credential Materializer *)

\* the mode open(path, "w") gives a file it creates (0666 under the usual umask 022)
DefaultMode == "0644"
OwnerOnly == "0600"

\* where each handler puts the key
\*   ansible_lambda._write_ssh_key:      os.path.join(work_dir, "id_rsa")
\*   deployment_lambda.setup_ssh_key:    os.path.join(expanduser('~/.ssh'), 'id_rsa')
KeyPathOf(rr) == IF variant = "ansible" THEN Join(rr.work_dir, "id_rsa") ELSE HomeKey

\* open(key_path, "w"): an existing file keeps its mode, a new one gets DefaultMode
AfterOpen(f, p) == [f EXCEPT ![p] = IF @ = "absent" THEN DefaultMode ELSE @]
\* os.chmod(key_path, 0o600)
AfterChmod(f, p) == [f EXCEPT ![p] = OwnerOnly]

WriteKey(r) ==
    /\ run[r].pc = "write_key"
    /\ \/ \* ansible_lambda only: SECRETS_CLIENT.get_secret_value of the key raises
          /\ variant = "ansible"
          /\ files' = files
          /\ run' = [run EXCEPT ![r] = Raise([@ EXCEPT !.store_calls = @ + 1],
                        Exc("ClientError", << "An error occurred when calling the GetSecretValue operation" >>))]
       \/ \* open() raises
          /\ files' = files
          /\ run' = [run EXCEPT ![r] = Raise([@ EXCEPT !.store_calls = IF variant = "ansible" THEN @ + 1 ELSE @],
                        Exc("OSError", << "[Errno 13] Permission denied: " >> \o KeyPathOf(run[r])))]
       \/ \* the key is written
          /\ files' = AfterOpen(files, KeyPathOf(run[r]))
          /\ run' = [run EXCEPT ![r] = [@ EXCEPT !.pc = NextPc(run[r].pc),
                                                 !.key_path = KeyPathOf(run[r]),
                                                 !.creds = [@ EXCEPT !.ssh_key = SshKeyMaterial],
                                                 !.store_calls = IF variant = "ansible" THEN @ + 1 ELSE @]]
    /\ UNCHANGED << variant, dirs, cwd >>

ChmodKey(r) ==
    /\ run[r].pc = "chmod_key"
    /\ \/ /\ files' = AfterChmod(files, run[r].key_path)
          /\ run' = [run EXCEPT ![r] = [@ EXCEPT !.pc = NextPc(run[r].pc)]]
       \/ /\ files' = files
          /\ run' = [run EXCEPT ![r] = Raise([@ EXCEPT !.chmod_failed = TRUE],
                        Exc("OSError", << "[Errno 1] Operation not permitted: " >> \o run[r].key_path))]
    /\ UNCHANGED << variant, dirs, cwd >>

---------------------------------------------------------------------------
(* Inventory Builder *)

\* _create_inventory / create_inventory_file: the hosts file is written into ansible_dir
InventoryPath(rr) == Join(rr.ansible_dir, "hosts")

Inventory(r) ==
    /\ run[r].pc = "inventory"
    /\ \/ run' = [run EXCEPT ![r] = [@ EXCEPT !.pc = NextPc(run[r].pc)]]
       \/ run' = [run EXCEPT ![r] = Raise(@, Exc("OSError", << "[Errno 28] No space left on device: " >> \o InventoryPath(run[r])))]
    /\ UNCHANGED << variant, dirs, files, cwd >>

---------------------------------------------------------------------------
(* Process Executor: the command line *)

\* the extra-variables mapping each handler builds, in insertion order, in
\* environment env
ExtraVarsA(rr, env) ==
    << << "service_name", rr.service_name >>,
       << "jar_timestamp", rr.jar_timestamp >>,
       << "aws_s3_bucket_repository", GetEnv(env, "AWS_S3_BUCKET_REPOSITORY") >>,
       << "aws_access_key_id", GetEnvDefault(env, "AWS_ACCESS_KEY_ID", "") >>,
       << "aws_secret_access_key", GetEnvDefault(env, "AWS_SECRET_ACCESS_KEY", "") >>,
       << "aws_default_region", GetEnvDefault(env, "AWS_DEFAULT_REGION", "us-east-1") >>,
       << "site", rr.site >>,
       << "app_user", rr.app_user >>,
       << "datasource_url", rr.creds.datasource_url >>,
       << "db_username", rr.creds.db_username >>,
       << "db_password", rr.creds.db_password >> >>

ExtraVarsD(rr, env) ==
    << << "service_name", rr.service_name >>,
       << "jar_timestamp", rr.jar_timestamp >>,
       << "aws_s3_bucket_repository", rr.artifacts_s3_bucket >>,
       << "aws_access_key_id", GetEnv(env, "AWS_ACCESS_KEY_ID") >>,
       << "aws_secret_access_key", GetEnv(env, "AWS_SECRET_ACCESS_KEY") >>,
       << "aws_default_region", GetEnv(env, "AWS_DEFAULT_REGION") >>,
       << "site", rr.site >>,
       << "app_user", rr.app_user >>,
       << "datasource_url", rr.creds.datasource_url >>,
       << "db_username", rr.creds.db_username >>,
       << "db_password", rr.creds.db_password >> >>

ExtraVars(rr, env) == IF variant = "ansible" THEN ExtraVarsA(rr, env) ELSE ExtraVarsD(rr, env)

\* one command-line argument is a sequence of tokens; f"{k}={v}" is << k, "=", str(v) >>
Flag(kv) == << << "-e" >>, << kv[1], "=", Str(kv[2]) >> >>

RECURSIVE ExtraArgsA(_)
\* _run_playbook: entries whose value is None are skipped
ExtraArgsA(extra) ==
    IF extra = << >> THEN << >>
    ELSE IF Head(extra)[2] = None THEN ExtraArgsA(Tail(extra))
    ELSE Flag(Head(extra)) \o ExtraArgsA(Tail(extra))

RECURSIVE ExtraArgsD(_)
\* execute_ansible_playbook: every entry becomes a flag pair
ExtraArgsD(extra) ==
    IF extra = << >> THEN << >>
    ELSE Flag(Head(extra)) \o ExtraArgsD(Tail(extra))

ExtraArgs(extra) == IF variant = "ansible" THEN ExtraArgsA(extra) ELSE ExtraArgsD(extra)

SshCommonArgs == "-o StrictHostKeyChecking=no -o UserKnownHostsFile=/dev/null -o IdentitiesOnly=yes"

\* the arguments that precede the extra-variable flags
BaseArgs(rr) ==
    << << "ansible-playbook" >>, << "-i" >>, InventoryPath(rr), << "main.yml" >>,
       << "--ssh-common-args" >>, << SshCommonArgs >>,
       << IF variant = "ansible" THEN "-vv" ELSE "-vvv" >> >>

\* cmd as built by the executor
Command(rr, extra) == BaseArgs(rr) \o ExtraArgs(extra)

RECURSIVE Flatten(_)
\* the tokens of a list of arguments, as str(list) shows them
Flatten(args) == IF args = << >> THEN << >> ELSE Head(args) \o Flatten(Tail(args))

\* str(subprocess.TimeoutExpired(cmd, 900)): "Command '<cmd>' timed out after 900 seconds"
TimeoutExpired(cmd) == Exc("TimeoutExpired", << "Command " >> \o Flatten(cmd) \o << " timed out after 900 seconds" >>)
\* the launch of the tool fails
LaunchError == Exc("FileNotFoundError", << "[Errno 2] No such file or directory: 'ansible-playbook'" >>)

---------------------------------------------------------------------------
(* Process Executor and Result Reporter *)

ExecResult(rc, out, err) ==
    [returncode |-> rc, stdout |-> out, stderr |-> err, success |-> (rc = 0), set |-> TRUE]

\* the result _run_playbook returns for a tool that ended
ResultA(rc, out, err) == ExecResult(rc, TailChars(out, RawTail), TailChars(err, RawTail))
\* the results execute_ansible_playbook returns
ResultD(rc, out, err) == ExecResult(rc, out, err)
TimedOutResult == ExecResult(-1, << >>, << "Execution timed out after 15 minutes" >>)
FailedResult(e) == ExecResult(-1, << >>, e.msg)

\* lambda_handler: the response for an executor result
Report(rr, res) ==
    IF res.success
    THEN Returned(200, [EmptyBody EXCEPT
            !.message = IF variant = "ansible" THEN "Deployment succeeded"
                        ELSE "Deployment completed successfully",
            !.service_name = rr.service_name,
            !.timestamp = rr.jar_timestamp,
            !.site = rr.site,
            !.target_vm = rr.creds.hostname,
            !.stdout = TailChars(res.stdout, ReportTail)])
    ELSE Returned(500, [EmptyBody EXCEPT
            !.error = << "Deployment failed" >>,
            !.stderr = TailChars(res.stderr, IF variant = "ansible" THEN FailTailA ELSE ReportTail),
            !.stdout = TailChars(res.stdout, IF variant = "ansible" THEN FailTailA ELSE ReportTail)])

\* the executor has returned res: the handler builds its response and leaves
\* through the finally clause
Reported(rr, res) == [rr EXCEPT !.pc = "finally", !.result = res, !.response = Report(rr, res)]

\* os.getcwd() / os.chdir(d) work only on a directory that exists
Exists(d) == d = InitialCwd \/ (d # DeletedCwd /\ \E w \in dirs : IsUnder(d, w))

\* the handler builds extra_vars in environment env and calls the executor,
\* which runs up to the start of the subprocess
\*   ansible:    subprocess.run(cmd, cwd=ansible_dir, ...) ; a launch failure propagates
\*   deployment: os.getcwd(), os.chdir(ansible_dir), subprocess.run(cmd, ...) inside
\*               try/except Exception: any failure becomes a result with returncode -1
Launch(r, env) ==
    /\ run[r].pc = "launch"
    /\ LET extra == ExtraVars(run[r], env)
           rr0 == [run[r] EXCEPT !.extra_vars = extra]
           rr == [rr0 EXCEPT !.cmd = Command(rr0, extra)]
       IN
       \/ /\ variant = "ansible"
          /\ cwd' = cwd
          /\ \/ run' = [run EXCEPT ![r] = [rr EXCEPT !.pc = NextPc(rr.pc), !.launched = TRUE]]
             \/ run' = [run EXCEPT ![r] = Raise([rr EXCEPT !.tool_event = "launch_failed"], LaunchError)]
       \/ \* os.getcwd() raises
          /\ variant = "deployment"
          /\ ~Exists(cwd)
          /\ cwd' = cwd
          /\ run' = [run EXCEPT ![r] = Reported(rr0,
                        FailedResult(Exc("FileNotFoundError", << "[Errno 2] No such file or directory" >>)))]
       \/ /\ variant = "deployment"
          /\ Exists(cwd)
          /\ cwd' = rr.ansible_dir
          /\ \/ run' = [run EXCEPT ![r] = [rr EXCEPT !.pc = NextPc(rr.pc), !.launched = TRUE,
                                                     !.original_cwd = cwd]]
             \/ run' = [run EXCEPT ![r] = Reported([rr EXCEPT !.original_cwd = cwd,
                                                               !.tool_event = "launch_failed"],
                                                   FailedResult(LaunchError))]
    /\ UNCHANGED << variant, dirs, files >>

\* what the tool may print on a stream: nothing, or more than _run_playbook
\* keeps of it, ending with the failure message
LongOutput == [i \in 1 .. (RawTail \div CharsPerToken) + 1 |-> ToString(i)] \o << "role failed" >>
Outputs == { << >>, LongOutput }

\* the run after the tool has ended with rc, having printed out and err
Exited(rr, rc, out, err) ==
    [rr EXCEPT !.tool_event = "exited", !.tool = [returncode |-> rc, stdout |-> out, stderr |-> err]]

\* the tool ends by itself with return code rc
ToolExit(r, rc, out, err) ==
    /\ run[r].pc = "running"
    /\ \/ /\ variant = "ansible"
          /\ cwd' = cwd
          /\ run' = [run EXCEPT ![r] = Reported(Exited(@, rc, out, err), ResultA(rc, out, err))]
       \/ \* os.chdir(original_cwd) succeeds
          /\ variant = "deployment"
          /\ Exists(run[r].original_cwd)
          /\ cwd' = run[r].original_cwd
          /\ run' = [run EXCEPT ![r] = Reported(Exited(@, rc, out, err), ResultD(rc, out, err))]
       \/ \* os.chdir(original_cwd) raises: caught by except Exception
          /\ variant = "deployment"
          /\ ~Exists(run[r].original_cwd)
          /\ cwd' = cwd
          /\ run' = [run EXCEPT ![r] = Reported(Exited(@, rc, out, err),
                        FailedResult(Exc("FileNotFoundError", << "[Errno 2] No such file or directory: " >> \o run[r].original_cwd)))]
    /\ UNCHANGED << variant, dirs, files >>

\* the tool is still running after 900 seconds: subprocess.run kills it and raises
\* TimeoutExpired
ToolTimeout(r) ==
    /\ run[r].pc = "running"
    /\ \/ /\ variant = "ansible"
          /\ run' = [run EXCEPT ![r] = Raise([@ EXCEPT !.tool_event = "timeout"], TimeoutExpired(run[r].cmd))]
       \/ /\ variant = "deployment"
          /\ run' = [run EXCEPT ![r] = Reported([@ EXCEPT !.tool_event = "timeout"], TimedOutResult)]
    /\ UNCHANGED << variant, dirs, files, cwd >>

---------------------------------------------------------------------------
(* Workspace Manager: release *)

\* shutil.rmtree(w) that succeeds: nothing under w is left
RmtreeDirs(d, w) == { x \in d : ~IsUnder(x, w) }
RmtreeFiles(f, w) == [p \in DOMAIN f |-> IF IsUnder(p, w) THEN "absent" ELSE f[p]]
\* a working directory inside the removed tree is gone with it
RmtreeCwd(c, w) == IF IsUnder(c, w) THEN DeletedCwd ELSE c

\* the handler's finally clause
\*   ansible:    shutil.rmtree(work_dir, ignore_errors=True), then the outer except
\*               turns a pending exception into the 500 response
\*   deployment: deployer.cleanup(): shutil.rmtree(self.work_dir) when the directory
\*               exists; an exception it raises leaves the handler
Finally(r) ==
    /\ run[r].pc = "finally"
    /\ LET rr == run[r]
           w == rr.work_dir
           answer == IF variant = "ansible" /\ rr.exc # NoExc
                     THEN Returned(500, ErrorBody(rr.exc))
                     ELSE rr.response
       IN  \/ \* no workspace was created (deployment only)
              /\ w = NoPath
              /\ dirs' = dirs /\ files' = files /\ cwd' = cwd
              /\ run' = [run EXCEPT ![r] = [rr EXCEPT !.pc = "done", !.response = answer]]
           \/ \* the tree is removed
              /\ w # NoPath
              /\ dirs' = RmtreeDirs(dirs, w)
              /\ files' = RmtreeFiles(files, w)
              /\ cwd' = RmtreeCwd(cwd, w)
              /\ run' = [run EXCEPT ![r] = [rr EXCEPT !.pc = "done", !.response = answer]]
           \/ \* the removal fails and the tree stays
              /\ w # NoPath
              /\ dirs' = dirs /\ files' = files /\ cwd' = cwd
              /\ run' = [run EXCEPT ![r] = [rr EXCEPT !.pc = "done", !.rm_failed = TRUE,
                            !.response = IF variant = "ansible" THEN answer
                                         ELSE Raised(Exc("OSError", << "[Errno 13] Permission denied: " >> \o w))]]
    /\ UNCHANGED variant

\* the caller has received the handler's answer; the process is ready for the
\* next invocation
Reset(r) ==
    /\ run[r].pc = "done"
    /\ run' = [run EXCEPT ![r] = IdleRun]
    /\ UNCHANGED << variant, dirs, files, cwd >>

---------------------------------------------------------------------------
(* Specifications *)

\* an invocation takes the first free slot
FirstFree(r) == \A s \in Procs : s < r => run[s].pc # "idle"

\* one invocation at a time, as the Lambda runtime schedules a process
InvokeAlone(r) ==
    /\ \A s \in Procs \ {r} : run[s].pc = "idle"
    /\ FirstFree(r)
    /\ Invoke(r, Events, EnvChoices)

\* the steps of a run, against a store holding one of stores for the site, in
\* an environment drawn from envs, with one of bundles to stage
Step(r, stores, envs, bundles) ==
    \/ \E data \in stores : Resolve(r, data)
    \/ Mkdtemp(r)
    \/ \E b \in bundles : Stage(r, b)
    \/ WriteKey(r)
    \/ ChmodKey(r)
    \/ Inventory(r)
    \/ \E env \in envs : Launch(r, env)
    \/ \E rc \in {0, 1} : \E out \in Outputs : \E err \in Outputs : ToolExit(r, rc, out, err)
    \/ ToolTimeout(r)
    \/ Finally(r)
    \/ Reset(r)

Next == \E r \in Procs : InvokeAlone(r) \/ Step(r, StoreChoices, EnvChoices, BundleChoices)

Spec == Init /\ [][Next]_vars

\* runs that overlap in one process image (same home directory, same working
\* directory): valid requests, a complete site record, every variable set
ConcEvents == { ev \in Events : /\ ev.service_name = "svc1" /\ ev.jar_timestamp = "t1"
                                /\ ev.site = "Sit1" /\ ev.app_user = Missing
                                /\ ev.ansible_s3_bucket = "bundles"
                                /\ ev.artifacts_s3_bucket = "repo" }
FullRecord == [asked |-> TRUE, exists |-> TRUE, present |-> Fields]
FullEnv == [n \in EnvNames |-> EnvValue(n)]
\* no bundle, or the archive of a directory named ansible
ConcBundles == { MissingBundle, [kind |-> "zip", path |-> << "ansible" >>, slash |-> FALSE] }

InvokeOverlapping(r) ==
    /\ FirstFree(r)
    /\ Invoke(r, ConcEvents, { FullEnv })

ConcNext == \E r \in Procs : InvokeOverlapping(r) \/ Step(r, { FullRecord }, { FullEnv }, ConcBundles)

ConcSpec == Init /\ [][ConcNext]_vars

---------------------------------------------------------------------------
(* Properties *)

Finished(r) == run[r].pc = "done"
HasReturned(r) == Finished(r) /\ run[r].response.outcome = "returned"
CreatedWorkspace(r) == run[r].work_dir # NoPath
IsErrorResponse(resp, code) ==
    resp.outcome = "returned" /\ resp.statusCode = code /\ resp.body.error # << >>

\* C1 as stated: once the workspace directory has been created, it no longer
\* exists when the handler returns, on every exit path.
C1_WorkspaceGoneOnReturn ==
    \A r \in Procs : (HasReturned(r) /\ CreatedWorkspace(r)) => run[r].work_dir \notin dirs

\* C1 as amended: on every exit path of a run that created a workspace the
\* removal of the tree has been attempted when the handler finishes, and the
\* workspace no longer exists unless that removal itself failed.
C1_WorkspaceGoneUnlessRemovalFailed ==
    \A r \in Procs : (Finished(r) /\ CreatedWorkspace(r) /\ ~run[r].rm_failed)
                        => run[r].work_dir \notin dirs

\* C1 witness: a run that created its workspace and failed after it (an
\* exception or a failing tool) has finished, and the workspace is gone.
C1_Witness ==
    \E r \in Procs : /\ HasReturned(r) /\ CreatedWorkspace(r) /\ ~run[r].rm_failed
                     /\ run[r].response.statusCode = 500
                     /\ run[r].tool_event = "timeout"
                     /\ run[r].work_dir \notin dirs

\* C2: a request in which service_name or jar_timestamp is missing or empty is
\* answered with status 400 and an error body, whatever its other fields are,
\* and the run calls the secret store zero times and creates no workspace.
C2_MissingFieldsRejected ==
    \A r \in Procs :
        (Finished(r) /\ (~Truthy(run[r].service_name) \/ ~Truthy(run[r].jar_timestamp)))
            => /\ IsErrorResponse(run[r].response, 400)
               /\ run[r].store_calls = 0
               /\ ~CreatedWorkspace(r)

\* C3: the executor never raises: when the tool times out or cannot be
\* launched the executor returns a result with success = false and return
\* code -1 whose stderr carries the reason, and a handler that returns
\* answers with the 'Deployment failed' status-500 payload.
C3_ExecutorNeverRaises ==
    \A r \in Procs :
        (run[r].tool_event \in { "timeout", "launch_failed" })
            => /\ run[r].result.set
               /\ ~run[r].result.success
               /\ run[r].result.returncode = -1
               /\ run[r].result.stderr # << >>
               /\ HasReturned(r) => /\ run[r].response.statusCode = 500
                                    /\ run[r].response.body.error = << "Deployment failed" >>

\* the response the handler has prepared when it reaches the removal of the
\* workspace: the report of the executor's result, or the 500 of the exception
PreparedResponse(rr) ==
    IF rr.exc # NoExc THEN Returned(500, ErrorBody(rr.exc)) ELSE Report(rr, rr.result)

\* C4: when the removal of the workspace fails, no exception leaves the
\* handler and the caller receives the response the run had prepared.
C4_CleanupFailureKeepsResponse ==
    \A r \in Procs : (Finished(r) /\ run[r].rm_failed)
                        => /\ run[r].response.outcome = "returned"
                           /\ run[r].response = PreparedResponse(run[r])

\* C5: after a run whose workspace was removed, the key file the run wrote no
\* longer exists and the working directory of the process is the one it had
\* when the handler was entered.
C5_NothingLeftBehind ==
    \A r \in Procs : (Finished(r) /\ ~run[r].rm_failed)
                        => /\ run[r].key_path # NoPath => files[run[r].key_path] = "absent"
                           /\ cwd = run[r].entry_cwd

Active(r) == run[r].pc \notin { "idle", "done" }

\* C6: two runs in progress at the same time have distinct workspace
\* directories, and the paths to which they write their SSH key differ.
C6_ConcurrentRunsShareNothing ==
    \A r \in Procs : \A q \in Procs \ {r} :
        (Active(r) /\ Active(q))
            => /\ (CreatedWorkspace(r) /\ CreatedWorkspace(q)) => run[r].work_dir # run[q].work_dir
               /\ (run[r].key_path # NoPath /\ run[q].key_path # NoPath)
                      => run[r].key_path # run[q].key_path

Range(seq) == { seq[i] : i \in DOMAIN seq }
\* every piece of text a response body carries
BodyTokens(body) == Range(body.error) \cup Range(body.stderr) \cup Range(body.stdout)
                    \cup { body.message, body.target_vm, body.site, body.service_name, body.timestamp }

\* C7: a response returned on a failure path (status 500) carries no raw
\* credential value (db_password, aws_secret_access_key, SSH key material).
C7_NoCredentialInFailureResponse ==
    \A r \in Procs :
        (HasReturned(r) /\ run[r].response.statusCode = 500)
            => BodyTokens(run[r].response.body) \cap CredentialValues = {}

\* the '-e' flags of a command line and the arguments that follow them
FlagPositions(cmd) == { i \in DOMAIN cmd : cmd[i] = << "-e" >> }
NonNone(extra) == { i \in DOMAIN extra : extra[i][2] # None }
\* the i-th of a set of positions, in increasing order
Nth(S, i) == CHOOSE x \in S : Cardinality({ y \in S : y < x }) = i - 1

\* C8: the command line built from an extra-variables mapping with N entries
\* that are not None carries exactly N '-e key=value' pairs, one per such
\* entry in mapping order, and no argument whose value part is None or null.
C8_NoneEntriesOmitted ==
    \A r \in Procs :
        run[r].cmd # << >> =>
            LET cmd == run[r].cmd
                extra == run[r].extra_vars
                fl == FlagPositions(cmd)
                nn == NonNone(extra)
            IN  /\ Cardinality(fl) = Cardinality(nn)
                /\ \A i \in 1 .. Cardinality(nn) :
                       cmd[Nth(fl, i) + 1] = << extra[Nth(nn, i)][1], "=", extra[Nth(nn, i)][2] >>
                /\ \A j \in DOMAIN cmd :
                       Len(cmd[j]) = 3 /\ cmd[j][2] = "=" => cmd[j][3] \notin { "None", "null" }

IncompleteRecord(data) == data.asked /\ (~data.exists \/ data.present # Fields)

\* C9: when the store has no record for the site or the record lacks an
\* expected field, the tool is never launched, and a run whose cleanup
\* succeeded ends with status 500, an error message and no workspace.
C9_IncompleteSecretsAreFatal ==
    \A r \in Procs :
        IncompleteRecord(run[r].vm_data)
            => /\ ~run[r].launched
               /\ (Finished(r) /\ ~run[r].rm_failed)
                      => /\ IsErrorResponse(run[r].response, 500)
                         /\ CreatedWorkspace(r) => run[r].work_dir \notin dirs

\* the executor can reference the key file from its call to its return
ExecutorCanReference(r) == run[r].pc \in { "launch", "running" }

\* C10 without its last clause: the tool is launched only after the key file
\* has been written and set to 0600, and while the executor can reference the
\* file its mode is 0600; after a failed chmod the tool is never launched.
C10_KeyOwnerOnlyForExecutor ==
    \A r \in Procs :
        /\ (ExecutorCanReference(r) \/ run[r].launched)
               => run[r].key_path # NoPath /\ ~run[r].chmod_failed
        /\ ExecutorCanReference(r) => files[run[r].key_path] = OwnerOnly
        /\ run[r].chmod_failed => ~run[r].launched /\ ~ExecutorCanReference(r)

\* C10: as above, and a run in which setting the permission failed ends with
\* status 500.
C10_KeyPermissionBeforeLaunch ==
    /\ C10_KeyOwnerOnlyForExecutor
    /\ \A r \in Procs : (Finished(r) /\ run[r].chmod_failed)
                            => IsErrorResponse(run[r].response, 500)

\* a run of a valid request whose site record was complete and whose bundle
\* was staged
ResolvedAndStaged(r) ==
    /\ (IF variant = "ansible" THEN ValidA(run[r]) ELSE ValidD(run[r]))
    /\ run[r].vm_data = FullRecord
    /\ run[r].ansible_dir # NoPath
ToolSucceeded(r) ==
    run[r].launched /\ run[r].tool_event = "exited" /\ run[r].tool.returncode = 0
ToolFailed(r) ==
    run[r].launched /\ run[r].tool_event = "exited" /\ run[r].tool.returncode # 0
AnsweredWith(r, code) == HasReturned(r) /\ run[r].response.statusCode = code
\* t is the end of s, and is not empty when s is not
IsTailOf(t, s) ==
    /\ Len(t) <= Len(s)
    /\ SubSeq(s, Len(s) - Len(t) + 1, Len(s)) = t
    /\ s # << >> => t # << >>

\* C11 for the runs whose handler returned: the status is 200 exactly when the
\* tool was launched and exited with code 0, target_vm is then the hostname the
\* store holds for the site, and a tool that exited with another code gives
\* status 500 with the ends of its stderr and stdout in the body.
C11_ReturnedStatusFollowsTool ==
    \A r \in Procs : (ResolvedAndStaged(r) /\ HasReturned(r)) =>
        /\ AnsweredWith(r, 200) <=> ToolSucceeded(r)
        /\ AnsweredWith(r, 200) => run[r].response.body.target_vm = SecretValue("VM_HOSTNAME")
        /\ ToolFailed(r) =>
               /\ AnsweredWith(r, 500)
               /\ IsTailOf(run[r].response.body.stderr, run[r].tool.stderr)
               /\ IsTailOf(run[r].response.body.stdout, run[r].tool.stdout)

\* C11: for every finished run of a valid request whose secrets resolved fully
\* and whose staging succeeded, the response status is 200 exactly when the
\* tool was launched and exited with code 0, and target_vm is then the hostname
\* the store holds for the site; when the tool exited with a non-zero code the
\* status is 500 and the body carries the ends of the tool's stderr and stdout.
C11_StatusFollowsTool ==
    \A r \in Procs : (ResolvedAndStaged(r) /\ Finished(r)) =>
        /\ AnsweredWith(r, 200) <=> ToolSucceeded(r)
        /\ AnsweredWith(r, 200) => run[r].response.body.target_vm = SecretValue("VM_HOSTNAME")
        /\ ToolFailed(r) =>
               /\ AnsweredWith(r, 500)
               /\ IsTailOf(run[r].response.body.stderr, run[r].tool.stderr)
               /\ IsTailOf(run[r].response.body.stdout, run[r].tool.stdout)

\* the stager of run r has unpacked an archive made by create_ansible_package
\* from a directory with main.yml at its top level
StagedArchive(r) == run[r].bundle.kind = "zip" /\ << "main.yml" >> \in PlaybookTree
\* main.yml in the directory the executor works in (cwd=ansible_dir, 'main.yml')
EntryPoint(r) == Join(run[r].ansible_dir, "main.yml")

\* C12: whenever a stager has staged the archive that create_ansible_package
\* made of a directory with main.yml at its top level, main.yml sits directly
\* in the automation directory the executor uses as its working directory and
\* entry point.
C12_MainYmlAtEntryPoint ==
    \A r \in Procs : (StagedArchive(r) /\ run[r].ansible_dir # NoPath)
                        => EntryPoint(r) \in run[r].staged

\* C12 with its "for any directory": every archive made by
\* create_ansible_package is staged, with main.yml at the entry point.
C12_EveryArchiveStaged ==
    \A r \in Procs : StagedArchive(r)
                        => run[r].ansible_dir # NoPath /\ EntryPoint(r) \in run[r].staged

====
